---- MODULE Spec2Model ----
(***************************************************************************)
(* Model of kernels.py: the Kernel / RBF / Polynomial classes.            *)
(*                                                                         *)
(* Numbers.  The kernels compute on reals.  A real is modelled exactly:   *)
(* a rational is a record [n, d] in lowest terms with d > 0, and a kernel *)
(* value is a record [t, q, s, e, c] in a canonical form                  *)
(*     t = "rat"      the rational q                                      *)
(*     t = "exp"      exp(-s) * q                with s # 0, q # 0        *)
(*     t = "exptanh"  exp(-(s * tanh(q)^2))      with s # 0, q # 0        *)
(*     t = "invsqrt"  1 / sqrt(s)                with s no rational square*)
(*     t = "wen"      s^e * q / c                with s not in {0, 1}     *)
(* so that exp(0), tanh(0), sqrt(1), 0^e and 1^e are evaluated and the    *)
(* transcendental parts are kept as written.  Point coordinates are taken *)
(* from a grid on which every Euclidean distance and norm is an integer,  *)
(* so the square root of distance_matrix and of linalg.norm is exact.     *)
(***************************************************************************)
EXTENDS Integers, Sequences, FiniteSets, TLC

VARIABLES ker, X, Y, last, res, hist

vars == <<ker, X, Y, last, res, hist>>

(***************************************************************************)
(* Bounds of the model.                                                    *)
(***************************************************************************)
\* rows of the point set X
MaxM == 2
\* ep ranges over n/4 for n in -1..MaxEpNum
MaxEpNum == 4
\* Matern / Wendland are constructed with k in 0..MaxK (supported and not)
MaxK == 5
\* Wendland is constructed with d in 1..MaxD
MaxD == 2
\* the Polynomial exponent p ranges over 0..MaxP
MaxP == 2

(***************************************************************************)
(* Exact rational arithmetic.                                              *)
(***************************************************************************)
Abs(i) == IF i < 0 THEN -i ELSE i

RECURSIVE Gcd(_, _)
Gcd(a, b) == IF b = 0 THEN a ELSE Gcd(b, a % b)

Rat(n, d) ==
    LET g == Gcd(Abs(n), Abs(d))
        sgn == IF d < 0 THEN -1 ELSE 1
    IN  [n |-> sgn * (n \div g), d |-> sgn * (d \div g)]

Zero == [n |-> 0, d |-> 1]
One == [n |-> 1, d |-> 1]
Int2Rat(i) == [n |-> i, d |-> 1]

RAdd(a, b) == Rat(a.n * b.d + b.n * a.d, a.d * b.d)
RNeg(a) == [n |-> -a.n, d |-> a.d]
RSub(a, b) == RAdd(a, RNeg(b))
RMul(a, b) == Rat(a.n * b.n, a.d * b.d)
RDiv(a, b) == Rat(a.n * b.d, a.d * b.n)
RLess(a, b) == a.n * b.d < b.n * a.d
RMax(a, b) == IF RLess(a, b) THEN b ELSE a

RECURSIVE IPow(_, _)
IPow(b, e) == IF e = 0 THEN 1 ELSE b * IPow(b, e - 1)

\* exact integer square root; defined on perfect squares only
ISqrt(n) == CHOOSE r \in 0..n : r * r = n
IsSquare(n) == \E r \in 0..n : r * r = n

\* Horner evaluation of a polynomial given by its coefficients, highest first
RECURSIVE Horner(_, _, _)
Horner(coef, x, acc) ==
    IF coef = <<>> THEN acc
    ELSE Horner(Tail(coef), x, RAdd(RMul(acc, x), Int2Rat(Head(coef))))

PolyAt(coef, x) == Horner(coef, x, Zero)

(***************************************************************************)
(* Kernel values.                                                          *)
(***************************************************************************)
RatV(q) == [t |-> "rat", q |-> q, s |-> Zero, e |-> 0, c |-> 1]
OneV == RatV(One)
ZeroV == RatV(Zero)

\* np.exp(-s) * q
ExpTimes(s, q) ==
    IF s = Zero \/ q = Zero THEN RatV(q)
    ELSE [t |-> "exp", q |-> q, s |-> s, e |-> 0, c |-> 1]

\* np.exp(-(ep * np.tanh(r)) ** 2); tanh(r) = 0 exactly when r = 0
ExpTanh(ep, r) ==
    IF ep = Zero \/ r = Zero THEN OneV
    ELSE [t |-> "exptanh", q |-> r, s |-> RMul(ep, ep), e |-> 0, c |-> 1]

\* 1. / np.sqrt(s)
InvSqrt(s) ==
    IF IsSquare(s.n) /\ IsSquare(s.d)
    THEN RatV(Rat(ISqrt(s.d), ISqrt(s.n)))
    ELSE [t |-> "invsqrt", q |-> One, s |-> s, e |-> 0, c |-> 1]

\* b ** e * q / c   (e >= 1, c >= 1, q finite)
PowTimes(b, e, q, c) ==
    IF b = Zero /\ e > 0 THEN ZeroV
    ELSE IF b = One \/ e = 0 \/ q = Zero THEN RatV(RDiv(q, Int2Rat(c)))
    ELSE [t |-> "wen", q |-> q, s |-> b, e |-> e, c |-> c]

(***************************************************************************)
(* ndarrays: a shape and the data, row by row.                             *)
(***************************************************************************)
Array1(v) == [shape |-> <<Len(v)>>, data |-> v]
Array2(rows, ncols) == [shape |-> <<Len(rows), ncols>>, data |-> rows]
ndim(a) == Len(a.shape)

\* np.atleast_2d: a 1-D input becomes a single row
atleast_2d(a) ==
    IF ndim(a) = 1 THEN [shape |-> <<1, a.shape[1]>>, data |-> <<a.data>>]
    ELSE a

RECURSIVE SumSeq(_)
SumSeq(s) == IF s = <<>> THEN 0 ELSE Head(s) + SumSeq(Tail(s))

\* Euclidean distance of two rows
minkowski_distance(u, v) ==
    ISqrt(SumSeq([c \in 1..Len(u) |-> (u[c] - v[c]) * (u[c] - v[c])]))

\* distance_matrix measuring every row of x against the first row of y
distance_matrix_firstrow(x, y) ==
    Array2([i \in 1..x.shape[1] |->
              [j \in 1..y.shape[1] |-> minkowski_distance(x.data[i], y.data[1])]],
           y.shape[1])

\* scipy.spatial.distance_matrix(x, y): the M x N matrix of distances
distance_matrix(x, y) ==
    Array2([i \in 1..x.shape[1] |->
              [j \in 1..y.shape[1] |-> minkowski_distance(x.data[i], y.data[j])]],
           y.shape[1])

\* x @ y.transpose(): the M x N matrix of inner products
matmul_transpose(x, y) ==
    Array2([i \in 1..x.shape[1] |->
              [j \in 1..y.shape[1] |->
                 SumSeq([c \in 1..x.shape[2] |-> x.data[i][c] * y.data[j][c]])]],
           y.shape[1])

\* np.linalg.norm(X, axis=1): the Euclidean norm of every row
linalg_norm_axis1(a) ==
    Array1([i \in 1..a.shape[1] |->
              ISqrt(SumSeq([c \in 1..a.shape[2] |-> a.data[i][c] * a.data[i][c]]))])

\* f applied to every entry of a 2-D array
Map2(f(_), a) ==
    [shape |-> a.shape,
     data |-> [i \in 1..a.shape[1] |-> [j \in 1..a.shape[2] |-> f(a.data[i][j])]]]

(***************************************************************************)
(* The profile functions (the lambdas stored in self.rbf).  A closure is   *)
(* the record of what the lambda captures: the branch taken (fn, k) and,   *)
(* for Wendland, l, e and c.                                               *)
(***************************************************************************)
Closure(fn, k, l, e, c) == [fn |-> fn, k |-> k, l |-> l, e |-> e, c |-> c]

\* MaternPoly with the constant terms of mat2 and mat3 dropped to 1
MaternPoly_unit(k) ==
    CASE k = 0 -> <<1>>
      [] k = 1 -> <<1, 1>>
      [] k = 2 -> <<1, 3, 1>>
      [] k = 3 -> <<1, 6, 15, 1>>

\* the polynomial factor of the Matern lambdas, coefficients highest first
MaternPoly(k) ==
    CASE k = 0 -> <<1>>
      [] k = 1 -> <<1, 1>>
      [] k = 2 -> <<1, 3, 3>>
      [] k = 3 -> <<1, 6, 15, 15>>

\* WendlandPoly with the constant term of every order set to 1
WendlandPoly_unit(k, l) ==
    CASE k = 0 -> <<1>>
      [] k = 1 -> <<l + 1, 1>>
      [] k = 2 -> <<(l + 3) * (l + 1), 3 * (l + 2), 1>>
      [] k = 3 -> <<(l + 5) * (l + 3) * (l + 1), 45 + 6 * l * (l + 6),
                    15 * (l + 3), 1>>
      [] k = 4 -> <<(l + 7) * (l + 5) * (l + 3) * (l + 1),
                    5 * (l + 4) * (21 + 2 * l * (8 + l)),
                    45 * (14 + l * (l + 8)), 105 * (l + 4), 1>>

\* the lambda p of Wendland.__init__, coefficients highest first
WendlandPoly(k, l) ==
    CASE k = 0 -> <<1>>
      [] k = 1 -> <<l + 1, 1>>
      [] k = 2 -> <<(l + 3) * (l + 1), 3 * (l + 2), 3>>
      [] k = 3 -> <<(l + 5) * (l + 3) * (l + 1), 45 + 6 * l * (l + 6),
                    15 * (l + 3), 15>>
      [] k = 4 -> <<(l + 7) * (l + 5) * (l + 3) * (l + 1),
                    5 * (l + 4) * (21 + 2 * l * (8 + l)),
                    45 * (14 + l * (l + 8)), 105 * (l + 4), 105>>

\* WendlandBase without the clamp at 0
WendlandBase_unclamped(x) == RSub(One, x)

\* np.maximum(1 - ep * r, 0)
WendlandBase(x) == RMax(RSub(One, x), Zero)

\* self.rbf(ep, r) for a rational distance r
rbf(clo, ep, r) ==
    LET x == RMul(ep, r) IN
    CASE clo.fn = "gauss" -> ExpTimes(RMul(x, x), One)
      [] clo.fn = "gauss_tanh" -> ExpTanh(ep, r)
      [] clo.fn = "imq" -> InvSqrt(RAdd(One, RMul(x, x)))
      [] clo.fn = "mat" -> ExpTimes(x, PolyAt(MaternPoly(clo.k), x))
      [] clo.fn = "wen" ->
           PowTimes(WendlandBase(x), clo.e, PolyAt(WendlandPoly(clo.k, clo.l), x), clo.c)

(***************************************************************************)
(* Constructors.  The result is the instance, or the exception raised.     *)
(***************************************************************************)
Raise(msg) == [cls |-> "raise", msg |-> msg]
NoKernel == [cls |-> "none"]
RBFInstance(cls, ep, name, clo) == [cls |-> cls, ep |-> ep, name |-> name, rbf |-> clo]

\* str(i) for i >= 0: the decimal digits
Digit(i) == <<"0", "1", "2", "3", "4", "5", "6", "7", "8", "9">>[i + 1]
RECURSIVE IntStr(_)
IntStr(i) == IF i < 10 THEN <<Digit(i)>> ELSE IntStr(i \div 10) \o <<Digit(i % 10)>>

Gaussian(ep) == RBFInstance("Gaussian", ep, <<"gauss">>, Closure("gauss", 0, 0, 0, 1))
GaussianTanh(ep) ==
    RBFInstance("GaussianTanh", ep, <<"gauss_tanh">>, Closure("gauss_tanh", 0, 0, 0, 1))
IMQ(ep) == RBFInstance("IMQ", ep, <<"imq">>, Closure("imq", 0, 0, 0, 1))

\* Matern whose else branch falls back to mat3 instead of raising
Matern_noraise(ep, k) ==
    IF k = 0 THEN RBFInstance("Matern", ep, <<"mat0">>, Closure("mat", 0, 0, 0, 1))
    ELSE IF k = 1 THEN RBFInstance("Matern", ep, <<"mat1">>, Closure("mat", 1, 0, 0, 1))
    ELSE IF k = 2 THEN RBFInstance("Matern", ep, <<"mat2">>, Closure("mat", 2, 0, 0, 1))
    ELSE RBFInstance("Matern", ep, <<"mat3">>, Closure("mat", 3, 0, 0, 1))

Matern(ep, k) ==
    IF k = 0 THEN RBFInstance("Matern", ep, <<"mat0">>, Closure("mat", 0, 0, 0, 1))
    ELSE IF k = 1 THEN RBFInstance("Matern", ep, <<"mat1">>, Closure("mat", 1, 0, 0, 1))
    ELSE IF k = 2 THEN RBFInstance("Matern", ep, <<"mat2">>, Closure("mat", 2, 0, 0, 1))
    ELSE IF k = 3 THEN RBFInstance("Matern", ep, <<"mat3">>, Closure("mat", 3, 0, 0, 1))
    ELSE Raise("This Matern kernel is not implemented")

\* (l + 1) * ... * (l + m) = factorial(l + m) / factorial(l)
RECURSIVE FactorialRatio(_, _)
FactorialRatio(l, m) == IF m = 0 THEN 1 ELSE (l + m) * FactorialRatio(l, m - 1)

Wendland(ep, k, d) ==
    LET l == (d \div 2) + k + 1
        c == FactorialRatio(l, 2 * k)
        e == l + k
    IN  IF k \in {0, 1, 2, 3, 4}
        THEN RBFInstance("Wendland", ep, <<"wen_">> \o IntStr(d) \o <<"_">> \o IntStr(k),
                         Closure("wen", k, l, e, c))
        ELSE Raise("This Wendland kernel is not implemented")

Polynomial(a, p) == [cls |-> "Polynomial", a |-> a, p |-> p]

IsRBF(k) == k.cls \in {"Gaussian", "GaussianTanh", "IMQ", "Matern", "Wendland"}
IsPolynomial(k) == k.cls = "Polynomial"

(***************************************************************************)
(* Methods.                                                                *)
(***************************************************************************)
\* RBF.eval(self, x, y)
RBF_eval(self, x, y) ==
    LET D == distance_matrix(atleast_2d(x), atleast_2d(y))
        f(r) == rbf(self.rbf, self.ep, Int2Rat(r))
    IN  Map2(f, D)

\* RBF_diagonal applying the profile to distance 1 instead of 0
RBF_diagonal_unitdist(self, x) ==
    Array1([i \in 1..x.shape[1] |-> rbf(self.rbf, self.ep, One)])

\* RBF.diagonal(self, X): np.ones(X.shape[0]) * self.rbf(self.ep, 0)
RBF_diagonal(self, x) ==
    Array1([i \in 1..x.shape[1] |-> rbf(self.rbf, self.ep, Zero)])

\* '%2.2e' % v for a rational v: sign, three-digit mantissa, decimal exponent
SciFmt(v) ==
    IF v.n = 0 THEN [neg |-> FALSE, mant |-> 0, exp |-> 0]
    ELSE LET n == Abs(v.n)
             d == v.d
             Fits(e) == IF e >= 0
                        THEN IPow(10, e) * d <= n /\ n < IPow(10, e + 1) * d
                        ELSE d <= n * IPow(10, -e) /\ n * IPow(10, -e - 1) < d
             e == CHOOSE e \in -4..4 : Fits(e)
             num == IF e >= 0 THEN n * 100 ELSE n * 100 * IPow(10, -e)
             den == IF e >= 0 THEN d * IPow(10, e) ELSE d
             fl == num \div den
             rem2 == 2 * (num % den)
             m == IF rem2 > den \/ (rem2 = den /\ fl % 2 = 1) THEN fl + 1 ELSE fl
         IN  IF m = 1000
             THEN [neg |-> v.n < 0, mant |-> 100, exp |-> e + 1]
             ELSE [neg |-> v.n < 0, mant |-> m, exp |-> e]

\* RBF.__str__(self)
RBF_str(self) == [type |-> "str", text |-> self.name \o <<" [gamma = ", "]">>,
                  nums |-> <<SciFmt(self.ep)>>]

\* RBF_set_params assigning to a misspelt attribute: ep is left as it was
RBF_set_params_wrongattr(self, par) == self

\* RBF.set_params(self, par)
RBF_set_params(self, par) == [self EXCEPT !.ep = par]

\* Polynomial.eval(self, x, y)
Polynomial_eval(self, x, y) ==
    LET G == matmul_transpose(atleast_2d(x), atleast_2d(y))
        f(g) == RatV(Int2Rat(IPow(g + self.a, self.p)))
    IN  Map2(f, G)

\* Polynomial_diagonal using the squared norm, the true diagonal of eval
Polynomial_diagonal_squared(self, x) ==
    LET nrm == linalg_norm_axis1(x)
    IN  Array2([i \in 1..nrm.shape[1] |->
                  <<RatV(Int2Rat(IPow(nrm.data[i] * nrm.data[i] + self.a, self.p)))>>], 1)

\* Polynomial.diagonal(self, X): an M x 1 column ([:, None])
Polynomial_diagonal(self, x) ==
    LET nrm == linalg_norm_axis1(x)
    IN  Array2([i \in 1..nrm.shape[1] |->
                  <<RatV(Int2Rat(IPow(nrm.data[i] + self.a, self.p)))>>], 1)

\* Polynomial.__str__(self)
Polynomial_str(self) ==
    [type |-> "str", text |-> <<"polynomial", " [a = ", ", p = ", "]">>,
     nums |-> <<SciFmt(Int2Rat(self.a)), SciFmt(Int2Rat(self.p))>>]

\* Polynomial_set_params that forgets the exponent
Polynomial_set_params_aonly(self, par) == [self EXCEPT !.a = par[1]]

\* Polynomial.set_params(self, par)
Polynomial_set_params(self, par) == [self EXCEPT !.a = par[1], !.p = par[2]]

(***************************************************************************)
(* Inputs.                                                                 *)
(***************************************************************************)
\* points of the plane whose mutual distances (0, 3, 4, 5) and norms (0, 3, 5)
\* are integers
Origin == <<0, 0>>
Points == {<<3, 0>>, <<3, 4>>}

\* a point set of 1..m rows as a 2-D array, or a single point as a 1-D array
PointSets(m) ==
    {Array1(pt) : pt \in Points}
    \cup UNION {{Array2(rows, 2) : rows \in [1..len -> Points]} : len \in 1..m}

\* the reference point of the demo (np.matrix([0])), as a 1-D or a 1 x 2 array
RefPoints == {Array1(Origin), Array2(<<Origin>>, 2)}

EpValues == {Rat(n, 4) : n \in -1..MaxEpNum}
AValues == {-6, -1, 0, 1}
PValues == 0..MaxP

None == [type |-> "none"]

(***************************************************************************)
(* The state machine: one kernel instance, the two point sets it is used   *)
(* on, the last call and its result.  hist remembers which constructor     *)
(* made the instance and the argument of the last set_params call, if any. *)
(***************************************************************************)
Init ==
    /\ ker = NoKernel
    /\ X \in PointSets(MaxM)
    /\ Y \in RefPoints
    /\ last = [op |-> "init"]
    /\ res = None
    /\ hist = [set |-> FALSE, par |-> Zero, ctor |-> [cls |-> "none", k |-> 0, d |-> 1]]

\* the outcome r of a constructor call made with the arguments args; a name is
\* bound to one instance, so a constructor runs while there is none
Constructed(r, args) ==
    /\ ker' = IF r.cls = "raise" THEN NoKernel ELSE r
    /\ res' = IF r.cls = "raise" THEN r ELSE None
    /\ last' = [op |-> "construct", args |-> args]
    /\ hist' = [set |-> FALSE, par |-> Zero,
                ctor |-> [cls |-> args.cls, k |-> args.k, d |-> args.d]]
    /\ UNCHANGED <<X, Y>>

NewGaussian ==
    \E ep \in EpValues :
        /\ ker = NoKernel
        /\ Constructed(Gaussian(ep), [cls |-> "Gaussian", ep |-> ep, k |-> 0, d |-> 1])

NewGaussianTanh ==
    \E ep \in EpValues :
        /\ ker = NoKernel
        /\ Constructed(GaussianTanh(ep), [cls |-> "GaussianTanh", ep |-> ep, k |-> 0, d |-> 1])

NewIMQ ==
    \E ep \in EpValues :
        /\ ker = NoKernel
        /\ Constructed(IMQ(ep), [cls |-> "IMQ", ep |-> ep, k |-> 0, d |-> 1])

NewMatern ==
    \E ep \in EpValues, k \in 0..MaxK :
        /\ ker = NoKernel
        /\ Constructed(Matern(ep, k), [cls |-> "Matern", ep |-> ep, k |-> k, d |-> 1])

NewWendland ==
    \E ep \in EpValues, k \in 0..MaxK, d \in 1..MaxD :
        /\ ker = NoKernel
        /\ Constructed(Wendland(ep, k, d), [cls |-> "Wendland", ep |-> ep, k |-> k, d |-> d])

NewPolynomial ==
    \E a \in AValues, p \in PValues :
        /\ ker = NoKernel
        /\ Constructed(Polynomial(a, p), [cls |-> "Polynomial", a |-> a, p |-> p, k |-> 0, d |-> 1])

\* ker.eval(x, y)
Eval ==
    /\ ker # NoKernel
    /\ \E x \in {X, Y}, y \in {X, Y} :
        /\ res' = IF IsRBF(ker) THEN RBF_eval(ker, x, y) ELSE Polynomial_eval(ker, x, y)
        /\ last' = [op |-> "eval", x |-> x, y |-> y]
    /\ UNCHANGED <<ker, X, Y, hist>>

\* ker.diagonal(x); np.linalg.norm(X, axis=1) raises on a 1-D array
Diagonal ==
    /\ ker # NoKernel
    /\ \E x \in {X, Y} :
        /\ res' = IF IsRBF(ker) THEN RBF_diagonal(ker, x)
                  ELSE IF ndim(x) = 1 THEN Raise("AxisError")
                  ELSE Polynomial_diagonal(ker, x)
        /\ last' = [op |-> "diagonal", x |-> x]
    /\ UNCHANGED <<ker, X, Y, hist>>

\* str(ker)
Str ==
    /\ ker # NoKernel
    /\ res' = IF IsRBF(ker) THEN RBF_str(ker) ELSE Polynomial_str(ker)
    /\ last' = [op |-> "str"]
    /\ UNCHANGED <<ker, X, Y, hist>>

\* ker.set_params(par) on an RBF kernel
SetParamsRBF ==
    /\ IsRBF(ker)
    /\ \E par \in EpValues :
        /\ ker' = RBF_set_params(ker, par)
        /\ last' = [op |-> "set_params", par |-> par]
        /\ hist' = [hist EXCEPT !.set = TRUE, !.par = par]
    /\ res' = None
    /\ UNCHANGED <<X, Y>>

\* ker.set_params([a, p]) on a Polynomial kernel
SetParamsPolynomial ==
    /\ IsPolynomial(ker)
    /\ \E a \in AValues, p \in PValues :
        /\ ker' = Polynomial_set_params(ker, <<a, p>>)
        /\ last' = [op |-> "set_params", par |-> <<a, p>>]
        /\ hist' = [hist EXCEPT !.set = TRUE, !.par = <<a, p>>]
    /\ res' = None
    /\ UNCHANGED <<X, Y>>

Next ==
    \/ NewGaussian
    \/ NewGaussianTanh
    \/ NewIMQ
    \/ NewMatern
    \/ NewWendland
    \/ NewPolynomial
    \/ Eval
    \/ Diagonal
    \/ Str
    \/ SetParamsRBF
    \/ SetParamsPolynomial

Spec == Init /\ [][Next]_vars

(***************************************************************************)
(* Properties.                                                             *)
(***************************************************************************)
\* the last call returned an array (and did not raise)
Returned(op) == last.op = op /\ "shape" \in DOMAIN res

\* the last call was eval(x, x) on a 2-D point set
EvalOnSame == Returned("eval") /\ ndim(last.x) = 2 /\ last.x = last.y

\* the last call was diagonal(x) on a 2-D point set
DiagonalOn2D == Returned("diagonal") /\ ndim(last.x) = 2

\* every entry diagonal(X) or the diagonal of eval(X, X) just returned is v
SelfEntriesAre(v) ==
    /\ DiagonalOn2D => \A i \in 1..last.x.shape[1] : res.data[i] = v
    /\ EvalOnSame => \A i \in 1..last.x.shape[1] : res.data[i][i] = v

IntV(i) == RatV(Int2Rat(i))

\* C1 as stated: for every Matern kernel (k in 0..3, any ep) every entry of
\* diagonal(X) and every diagonal entry of eval(X, X) is 1.
C1_MaternOneAtZero == ker.cls = "Matern" => SelfEntriesAre(OneV)

\* C1 amended: for every Matern kernel (k in 0..3, any ep) every entry of
\* diagonal(X) and every diagonal entry of eval(X, X) is the constant term
\* of its polynomial: 1 for k = 0 and k = 1, 3 for k = 2, 15 for k = 3.
C1_MaternAtZero ==
    ker.cls = "Matern" => SelfEntriesAre(IntV(<<1, 1, 3, 15>>[hist.ctor.k + 1]))

C1_Witness ==
    /\ ker.cls = "Matern" /\ hist.ctor.k = 2 /\ ker.ep = Rat(1, 4)
    /\ EvalOnSame /\ last.x.shape[1] = 2
    /\ res.data[2][2] = IntV(3)

\* C2 as stated: for every Wendland kernel (k in 0..4, d >= 1, any ep) the
\* profile at distance 0 is 1, so that every entry of diagonal(X) and every
\* diagonal entry of eval(X, X) is 1.
C2_WendlandOneAtZero == ker.cls = "Wendland" => SelfEntriesAre(OneV)

\* C2 amended: for every Wendland kernel (k in 0..4, d >= 1, any ep) the
\* profile at distance 0 is P_k(0) / c with P_k(0) = 1, 1, 3, 15, 105 for
\* k = 0..4 and c = (l+2k)!/l!, l = floor(d/2) + k + 1; it is 1 exactly when
\* k = 0.
C2_WendlandAtZero ==
    ker.cls = "Wendland" =>
        LET k == hist.ctor.k
            l == (hist.ctor.d \div 2) + k + 1
            v == RatV(Rat(<<1, 1, 3, 15, 105>>[k + 1], FactorialRatio(l, 2 * k)))
        IN  SelfEntriesAre(v) /\ (v = OneV <=> k = 0)

C2_Witness ==
    /\ ker.cls = "Wendland" /\ hist.ctor.k = 1 /\ hist.ctor.d = 1
    /\ DiagonalOn2D
    /\ res.data[1] = RatV(Rat(1, 12))

\* C3: for every RBF kernel and every point set X of M points,
\* diagonal(X)[i] = eval(X, X)[i][i] for every i, whatever ep currently is.
C3_DiagonalIsEvalDiagonal ==
    IsRBF(ker) /\ EvalOnSame =>
        LET dg == RBF_diagonal(ker, last.x)
        IN  /\ dg.shape = <<res.shape[1]>>
            /\ \A i \in 1..res.shape[1] : dg.data[i] = res.data[i][i]

C3_Witness ==
    /\ ker.cls = "IMQ" /\ hist.set /\ ker.ep = Rat(1, 4)
    /\ EvalOnSame /\ last.x.shape[1] = 2
    /\ res.data[1][2] # res.data[1][1]

\* C4: for every Wendland kernel and every pair of points with
\* ep * distance > 1 the entry of eval(X, Y) for that pair is exactly 0.
C4_WendlandCompactSupport ==
    ker.cls = "Wendland" /\ Returned("eval") =>
        LET x == atleast_2d(last.x)
            y == atleast_2d(last.y)
        IN  \A i \in 1..x.shape[1], j \in 1..y.shape[1] :
                RLess(One, RMul(ker.ep, Int2Rat(minkowski_distance(x.data[i], y.data[j]))))
                    => res.data[i][j] = ZeroV

\* ep = 1/4: the point at distance 5 is outside the support, the point at
\* distance 3 inside
C4_Witness ==
    /\ ker.cls = "Wendland" /\ ker.ep = Rat(1, 4) /\ hist.ctor.k = 2
    /\ Returned("eval")
    /\ last.x = Array2(<<<<3, 0>>, <<3, 4>>>>, 2) /\ last.y = Array1(Origin)
    /\ res.data[2][1] = ZeroV /\ res.data[1][1] # ZeroV

\* C5: constructing Matern with k outside {0,1,2,3} or Wendland with k
\* outside {0,1,2,3,4} raises the not-implemented error and yields no
\* instance; constructing with a supported k raises nothing.
C5_UnsupportedOrderRaises ==
    last.op = "construct" =>
        LET a == last.args IN
        /\ a.cls = "Matern" /\ a.k \notin {0, 1, 2, 3} =>
              res = Raise("This Matern kernel is not implemented") /\ ker = NoKernel
        /\ a.cls = "Wendland" /\ a.k \notin {0, 1, 2, 3, 4} =>
              res = Raise("This Wendland kernel is not implemented") /\ ker = NoKernel
        /\ a.cls = "Matern" /\ a.k \in {0, 1, 2, 3} => res = None /\ ker.cls = "Matern"
        /\ a.cls = "Wendland" /\ a.k \in {0, 1, 2, 3, 4} => res = None /\ ker.cls = "Wendland"

C5_Witness ==
    /\ last.op = "construct" /\ last.args.cls = "Matern" /\ last.args.k = 4
    /\ last.args.ep = One
    /\ ker = NoKernel /\ res = Raise("This Matern kernel is not implemented")

\* the kernel the constructor recorded in hist makes for the shape parameter ep
Fresh(ctor, ep) ==
    CASE ctor.cls = "Gaussian" -> Gaussian(ep)
      [] ctor.cls = "GaussianTanh" -> GaussianTanh(ep)
      [] ctor.cls = "IMQ" -> IMQ(ep)
      [] ctor.cls = "Matern" -> Matern(ep, ctor.k)
      [] ctor.cls = "Wendland" -> Wendland(ep, ctor.k, ctor.d)

\* C6: after one or more set_params calls on an RBF kernel, interleaved with
\* eval / diagonal calls, eval(X, Y) returns what eval(X, Y) returns on a
\* freshly constructed kernel of the same variant whose ep is the argument
\* of the last set_params call.
C6_LastSetParamsDecides ==
    IsRBF(ker) /\ hist.set /\ Returned("eval") =>
        res = RBF_eval(Fresh(hist.ctor, hist.par), last.x, last.y)

C6_Witness ==
    /\ ker.cls = "Gaussian" /\ hist.set /\ hist.par = Rat(1, 2)
    /\ Returned("eval") /\ last.x = Array2(<<<<3, 4>>>>, 2) /\ ndim(last.y) = 1
    /\ res.data[1][1] = ExpTimes(Rat(25, 4), One)

\* the Euclidean norm of row i of the 2-D array x
RowNorm(x, i) == ISqrt(SumSeq([c \in 1..x.shape[2] |-> x.data[i][c] * x.data[i][c]]))

\* diagonal(X)[i] is (||X_i|| + a)^p and eval(X, X)[i][i] is (||X_i||^2 + a)^p
PolynomialDiagonalValues ==
    LET x == last.x
        E == Polynomial_eval(ker, x, x)
    IN  \A i \in 1..x.shape[1] :
            /\ res.data[i][1] = IntV(IPow(RowNorm(x, i) + ker.a, ker.p))
            /\ E.data[i][i] = IntV(IPow(RowNorm(x, i) * RowNorm(x, i) + ker.a, ker.p))

\* C7 as stated: Polynomial.diagonal(X)[i] is (||X_i|| + a)^p, eval(X, X)[i][i]
\* is (||X_i||^2 + a)^p, and the two differ for every row whose norm is not 0
\* or 1 when p # 0.
C7_PolynomialDiagonalAlwaysDiffers ==
    IsPolynomial(ker) /\ DiagonalOn2D =>
        /\ PolynomialDiagonalValues
        /\ \A i \in 1..last.x.shape[1] :
              RowNorm(last.x, i) \notin {0, 1} /\ ker.p # 0 =>
                  res.data[i][1] # Polynomial_eval(ker, last.x, last.x).data[i][i]

\* C7 amended: Polynomial.diagonal(X)[i] is (||X_i|| + a)^p, eval(X, X)[i][i]
\* is (||X_i||^2 + a)^p, and the two differ for every row whose norm is not 0
\* or 1 when p # 0, unless p is even and ||X_i|| + a = -(||X_i||^2 + a).
C7_PolynomialDiagonalDiffers ==
    IsPolynomial(ker) /\ DiagonalOn2D =>
        /\ PolynomialDiagonalValues
        /\ \A i \in 1..last.x.shape[1] :
              LET n == RowNorm(last.x, i) IN
              /\ n \notin {0, 1}
              /\ ker.p # 0
              /\ ~(ker.p % 2 = 0 /\ n + ker.a = -(n * n + ker.a))
              => res.data[i][1] # Polynomial_eval(ker, last.x, last.x).data[i][i]

C7_Witness ==
    /\ IsPolynomial(ker) /\ ker.a = 1 /\ ker.p = 2
    /\ DiagonalOn2D /\ last.x = Array2(<<<<3, 0>>, <<3, 4>>>>, 2)
    /\ res.data[1][1] = IntV(16)
    /\ Polynomial_eval(ker, last.x, last.x).data[1][1] = IntV(100)

\* C8 as stated: for every kernel variant and every point set X given as an
\* M-row 2-D array, diagonal(X) is a one-dimensional vector of length M.
C8_DiagonalIsVector ==
    ker # NoKernel /\ DiagonalOn2D => res.shape = <<last.x.shape[1]>>

\* C9: for every kernel and every point set X of M points eval(X, X) is a
\* symmetric M x M matrix, and eval(X, Y) has M rows and N columns.
C9_EvalShapeAndSymmetry ==
    Returned("eval") =>
        LET M == atleast_2d(last.x).shape[1]
            N == atleast_2d(last.y).shape[1]
        IN  /\ res.shape = <<M, N>>
            /\ Len(res.data) = M
            /\ \A i \in 1..M : Len(res.data[i]) = N
            /\ last.x = last.y =>
                  \A i \in 1..M, j \in 1..M : res.data[i][j] = res.data[j][i]

C9_Witness ==
    /\ ker.cls = "Matern" /\ hist.ctor.k = 3 /\ ker.ep = Rat(1, 2)
    /\ Returned("eval") /\ last.x = last.y /\ res.shape = <<2, 2>>
    /\ res.data[1][2] # res.data[1][1] /\ res.data[1][2] = res.data[2][1]

\* C10: eval, diagonal and __str__ leave the instance as it is; set_params
\* on an RBF kernel changes ep to its argument and nothing else (name,
\* profile function with k, l, e, c); set_params([a, p]) on a Polynomial
\* kernel assigns par[0] to a and par[1] to p and changes nothing else.
C10_Frame ==
    [][/\ last'.op \in {"eval", "diagonal", "str"} => ker' = ker
       /\ last'.op = "set_params" /\ IsRBF(ker) =>
             /\ ker'.ep = last'.par
             /\ ker' = [ker EXCEPT !.ep = last'.par]
             /\ ker'.name = ker.name /\ ker'.rbf = ker.rbf /\ ker'.cls = ker.cls
       /\ last'.op = "set_params" /\ IsPolynomial(ker) =>
             /\ ker'.a = last'.par[1]
             /\ ker'.p = last'.par[2]
             /\ ker' = [cls |-> "Polynomial", a |-> last'.par[1], p |-> last'.par[2]]
      ]_vars

C10_Witness ==
    /\ last.op = "set_params" /\ IsPolynomial(ker)
    /\ last.par = <<-6, 2>> /\ ker.a = -6 /\ ker.p = 2

====
